---- MODULE Spec2Model ----
(***************************************************************************)
(* UnveilDocs front end: the upload / analysis workflow of HomePage.jsx,   *)
(* the Chat component with its reupload confirmation modal, and the        *)
(* question handler of LegalInsights.jsx.                                  *)
(*                                                                         *)
(* The state is the React state of the mounted components plus what is     *)
(* pending outside them: collaborator calls in flight (awaited promises)   *)
(* and armed timers.  One action is one event handler run to its next      *)
(* suspension point (an await), or one continuation run after the awaited  *)
(* promise settles.  A user event is enabled exactly when the element      *)
(* that carries its handler is rendered and not disabled.                  *)
(***************************************************************************)
EXTENDS Integers, Sequences, FiniteSets

VARIABLES
    isUploading,        \* HomePage state
    uploadedFiles,
    documentText,
    analysisResult,
    isAnalyzing,
    showAnalysis,
    error,
    showReuploadModal,  \* Chat state
    uploadCalls,        \* apiService.uploadDocument promises not yet settled
    analysisCalls,      \* apiService.analyzeDocument promises not yet settled
    exampleFetches,     \* fetch(sampleDocument) promises not yet settled
    errorTimers,        \* armed setTimeout(() => setError(null), 5000), oldest first
    question,           \* LegalInsights state (of the mounted instance)
    isLoading,
    progress,
    questionResponse,
    questionError,
    askCalls,           \* apiService.askQuestion promises not yet settled
    liveOrphans,        \* running progress intervals of the mounted instance whose call failed
    staleOrphans,       \* running progress intervals of unmounted instances whose call failed
    analysisData,       \* the analysisData prop given to the result mapping of LegalInsights
    rendered,           \* what the result mapping produced for it
    report,             \* what downloadPDFReport computed for it
    httpResponse,       \* a fetch response given to APIService.handleResponse
    handled,            \* what handleResponse made of it
    dragCounter,        \* HomePage effect: drag events entered and not left
    isGlobalDragActive  \* HomePage state: the drop overlay is shown

homeVars == <<isUploading, uploadedFiles, documentText, analysisResult,
              isAnalyzing, showAnalysis, error>>
askVars == <<question, isLoading, progress, questionResponse, questionError,
             askCalls, liveOrphans, staleOrphans>>
mappingVars == <<analysisData, rendered, report>>
serviceVars == <<httpResponse, handled>>
dragVars == <<dragCounter, isGlobalDragActive>>
vars == <<isUploading, uploadedFiles, documentText, analysisResult,
          isAnalyzing, showAnalysis, error, showReuploadModal,
          uploadCalls, analysisCalls, exampleFetches, errorTimers,
          question, isLoading, progress, questionResponse, questionError,
          askCalls, liveOrphans, staleOrphans, analysisData, rendered, report,
          httpResponse, handled, dragCounter, isGlobalDragActive>>

(***************************************************************************)
(* Bounds of the model.                                                    *)
(***************************************************************************)
MaxUploadCalls == 2     \* upload calls in flight at once
MaxFetches == 1         \* example fetches in flight at once
MaxTimers == 2          \* armed error timers at once
MaxFiles == 2           \* files in one selection or drop
MaxAnalysisCalls == 2   \* analysis calls in flight at once
MaxAskCalls == 2        \* question calls in flight at once
MaxIntervals == 2       \* progress intervals running at once

(***************************************************************************)
(* JavaScript values.                                                      *)
(***************************************************************************)
Undefined == "undefined"
Null == [tag |-> "null"]
NoData == [tag |-> "undefined"]

\* !x is false for the values Truthy accepts
TruthyText(t) == t # "" /\ t # Undefined
TruthyValue(v) == v.tag # "null" /\ v.tag # "undefined"

ErrorClearDelay == 5000

FileNames == {"contract.pdf", "lease.docx"}
ExampleFile == "MASTER SERVICES AGREEMENT.pdf"
Texts == {"", "text A", "text B"}
Messages == {"Failed to fetch", "File type not allowed"}
Variants == {"r1", "r2"}

\* e.target.files / e.dataTransfer.files: a list of 0..MaxFiles files
FileLists == UNION {[1..n -> FileNames] : n \in 0..MaxFiles}

(***************************************************************************)
(* What a collaborator call can settle with: a rejection (transport error, *)
(* non-2xx status, a body that is not an object), or a parsed body.        *)
(***************************************************************************)
UploadData == {NoData} \cup
    {[tag |-> "data", text |-> t, metadata |-> "meta"] : t \in Texts \cup {Undefined}}
UploadResponses ==
    {[kind |-> "reject", msg |-> m] : m \in Messages} \cup
    {[kind |-> "body", success |-> s, data |-> d] : s \in BOOLEAN, d \in UploadData}

AnalysisData(text) == {NoData} \cup
    {[tag |-> "data", forText |-> text, result |-> v] : v \in Variants}
AnalysisResponses(text) ==
    {[kind |-> "reject", msg |-> m] : m \in Messages} \cup
    {[kind |-> "body", success |-> s, data |-> d] : s \in BOOLEAN, d \in AnalysisData(text)}

NoError == [src |-> "none", msg |-> ""]
UploadFailed(m) == [src |-> "Upload failed", msg |-> m]
AnalysisFailed(m) == [src |-> "Analysis failed", msg |-> m]
NoDocumentTextError == [src |-> "validation", msg |-> "No document text available for analysis"]

ErrorTimer == [delay |-> ErrorClearDelay]

(***************************************************************************)
(* The values of an analysis payload, as JSON.parse can produce them, and  *)
(* what the result mapping makes of them.  A string is its sequence of     *)
(* characters.  A number is NaN, an infinity, or a finite decimal of four   *)
(* places: sign, whole part, ten-thousandths.  An object carries the       *)
(* fields the mapping reads, a field that is absent reading as undefined.  *)
(***************************************************************************)
JsUndefined == [t |-> "undefined"]
JsNull == [t |-> "null"]
JsString(chars) == [t |-> "string", s |-> chars]
JsNumber(neg, whole, part) ==
    [t |-> "number", kind |-> "finite", neg |-> neg, whole |-> whole, part |-> part]
JsNaN == [t |-> "number", kind |-> "NaN", neg |-> FALSE, whole |-> 0, part |-> 0]
JsInfinity == [t |-> "number", kind |-> "Infinity", neg |-> FALSE, whole |-> 0, part |-> 0]
JsArray(items) == [t |-> "array", items |-> items]
\* Object and Object.prototype, which every object literal inherits from
JsObjectFunction == [t |-> "function", name |-> "Object"]
JsObjectPrototype == [t |-> "object", name |-> "Object.prototype"]

\* LegalInsights is not rendered, or its render has not run for analysisData
NotRendered == [status |-> "none"]
\* no report has been generated
NoReport == [status |-> "none"]
\* no response is being handled
NoResponse == [call |-> "none"]
NotHandled == [outcome |-> "none"]

Init ==
    /\ isUploading = FALSE
    /\ uploadedFiles = <<>>
    /\ documentText = ""
    /\ analysisResult = Null
    /\ isAnalyzing = FALSE
    /\ showAnalysis = FALSE
    /\ error = NoError
    /\ showReuploadModal = FALSE
    /\ uploadCalls = <<>>
    /\ analysisCalls = <<>>
    /\ exampleFetches = 0
    /\ errorTimers = <<>>
    /\ question = <<>>
    /\ isLoading = FALSE
    /\ progress = 0
    /\ questionResponse = ""
    /\ questionError = ""
    /\ askCalls = <<>>
    /\ liveOrphans = 0
    /\ staleOrphans = 0
    /\ analysisData = JsNull
    /\ rendered = NotRendered
    /\ report = NoReport
    /\ httpResponse = NoResponse
    /\ handled = NotHandled
    /\ dragCounter = 0
    /\ isGlobalDragActive = FALSE

RemoveAt(s, i) == SubSeq(s, 1, i - 1) \o SubSeq(s, i + 1, Len(s))

(***************************************************************************)
(* What is rendered (HomePage.jsx:222, Chat.jsx:105, 135, 239-243).        *)
(***************************************************************************)
LegalInsightsRendered == showAnalysis /\ TruthyValue(analysisResult)
UploadSectionRendered == Len(uploadedFiles) = 0
FileInputRendered == UploadSectionRendered /\ ~isUploading
ChatBarRendered == Len(uploadedFiles) > 0
\* the Start Analysis button without disabled={isAnalyzing}
StartAnalysisButtonNeverDisabled == ChatBarRendered /\ ~TruthyValue(analysisResult)

StartAnalysisButtonEnabled ==
    ChatBarRendered /\ ~TruthyValue(analysisResult) /\ ~isAnalyzing
ModalRendered == ChatBarRendered /\ showReuploadModal

(***************************************************************************)
(* HomePage.handleFileUpload, up to the await of uploadDocument.           *)
(***************************************************************************)
handleFileUpload(files) ==
    IF Len(files) > 0
    THEN /\ isUploading' = TRUE
         /\ error' = NoError
         /\ uploadCalls' = Append(uploadCalls, [file |-> files[1]])
         /\ UNCHANGED <<uploadedFiles, documentText, analysisResult, isAnalyzing,
                        showAnalysis, analysisCalls, errorTimers>>
    ELSE UNCHANGED <<homeVars, uploadCalls, analysisCalls, errorTimers>>

\* the catch block of handleFileUpload without setIsUploading(false)
UploadCatchKeepsBusy(m) ==
    /\ error' = UploadFailed(m)
    /\ isUploading' = isUploading
    /\ errorTimers' = Append(errorTimers, ErrorTimer)

\* the catch block of handleFileUpload
UploadCatch(m) ==
    /\ error' = UploadFailed(m)
    /\ isUploading' = FALSE
    /\ errorTimers' = Append(errorTimers, ErrorTimer)

\* the document built from a processed response
NewFile(file, processedDoc) ==
    [name |-> file, processedText |-> processedDoc.text, metadata |-> processedDoc.metadata]

\* setUploadedFiles(prev => [...prev, newFile]) in place of setUploadedFiles([newFile])
UploadStoreAppends(file, processedDoc) ==
    /\ uploadedFiles' = Append(uploadedFiles, NewFile(file, processedDoc))
    /\ documentText' = processedDoc.text

\* setUploadedFiles([newFile]) without setDocumentText(processedDoc.text)
UploadStoreKeepsText(file, processedDoc) ==
    /\ uploadedFiles' = <<NewFile(file, processedDoc)>>
    /\ documentText' = documentText

\* setUploadedFiles([newFile]); setDocumentText(processedDoc.text)
UploadStore(file, processedDoc) ==
    /\ uploadedFiles' = <<NewFile(file, processedDoc)>>
    /\ documentText' = processedDoc.text

(***************************************************************************)
(* HomePage.handleFileUpload after the await: the response is tested, the  *)
(* document is stored, and any exception on the way runs the catch block.  *)
(* processedDoc.text of a missing data throws before anything is stored;   *)
(* processedDoc.text.length of a missing text throws after the document,   *)
(* the text and isUploading have been set.                                 *)
(***************************************************************************)
UploadContinuation(file, response) ==
    IF response.kind = "reject"
    THEN UploadCatch(response.msg) /\ UNCHANGED <<uploadedFiles, documentText>>
    ELSE IF ~response.success
    THEN UploadCatch("Document processing failed")
         /\ UNCHANGED <<uploadedFiles, documentText>>
    ELSE IF response.data = NoData
    THEN UploadCatch("Cannot read properties of undefined (reading 'text')")
         /\ UNCHANGED <<uploadedFiles, documentText>>
    ELSE IF response.data.text = Undefined
    THEN UploadStore(file, response.data)
         /\ UploadCatch("Cannot read properties of undefined (reading 'length')")
    ELSE /\ UploadStore(file, response.data)
         /\ isUploading' = FALSE
         /\ UNCHANGED <<error, errorTimers>>

UploadFails(response) ==
    \/ response.kind = "reject"
    \/ ~response.success
    \/ response.data = NoData
    \/ response.data.text = Undefined

UploadSettles(i, response) ==
    /\ i \in 1..Len(uploadCalls)
    /\ UploadFails(response) => Len(errorTimers) < MaxTimers
    /\ UploadContinuation(uploadCalls[i].file, response)
    /\ uploadCalls' = RemoveAt(uploadCalls, i)
    /\ UNCHANGED <<analysisResult, isAnalyzing, showAnalysis, showReuploadModal,
                   analysisCalls, exampleFetches>>

(***************************************************************************)
(* The surfaces that reach handleFileUpload (Chat.jsx).                     *)
(***************************************************************************)
\* <input type="file" multiple onChange={handleFileUpload}>, rendered when !isUploading
FileInputChange(files) ==
    /\ FileInputRendered
    /\ Len(files) > 0
    /\ Len(uploadCalls) < MaxUploadCalls
    /\ handleFileUpload(files)
    /\ UNCHANGED <<showReuploadModal, exampleFetches>>

\* onDrop of the upload zone
UploadZoneDrop(files) ==
    /\ UploadSectionRendered
    /\ Len(uploadCalls) < MaxUploadCalls
    /\ handleFileUpload(files)
    /\ UNCHANGED <<showReuploadModal, exampleFetches>>

\* handleAskExample up to its first await
LoadExampleClick ==
    /\ UploadSectionRendered
    /\ exampleFetches < MaxFetches
    /\ exampleFetches' = exampleFetches + 1
    /\ UNCHANGED <<homeVars, showReuploadModal, uploadCalls, analysisCalls, errorTimers>>

\* handleAskExample after fetch and blob resolved
ExampleFetched ==
    /\ exampleFetches > 0
    /\ Len(uploadCalls) < MaxUploadCalls
    /\ exampleFetches' = exampleFetches - 1
    /\ handleFileUpload(<<ExampleFile>>)
    /\ UNCHANGED showReuploadModal

\* handleAskExample's catch: the fetch failed, nothing but a console message
ExampleFetchFailed ==
    /\ exampleFetches > 0
    /\ exampleFetches' = exampleFetches - 1
    /\ UNCHANGED <<homeVars, showReuploadModal, uploadCalls, analysisCalls, errorTimers>>

(***************************************************************************)
(* The 5 second timers armed by the catch blocks.  All have the same       *)
(* delay, so they fire in the order they were armed.                       *)
(***************************************************************************)
ErrorTimerFires ==
    /\ errorTimers # <<>>
    /\ error' = NoError
    /\ errorTimers' = Tail(errorTimers)
    /\ UNCHANGED <<isUploading, uploadedFiles, documentText, analysisResult, isAnalyzing,
                   showAnalysis, showReuploadModal, uploadCalls, analysisCalls,
                   exampleFetches>>

(***************************************************************************)
(* Reupload: Chat's refresh button opens ReuploadConfirmModal; the modal   *)
(* either confirms (onConfirm, then handleClose) or closes.                *)
(***************************************************************************)
\* handleReupload without setDocumentText('')
handleReuploadKeepsText ==
    /\ uploadedFiles' = <<>>
    /\ analysisResult' = Null
    /\ showAnalysis' = FALSE
    /\ error' = NoError
    /\ UNCHANGED <<documentText, isUploading, isAnalyzing>>

handleReupload ==
    /\ uploadedFiles' = <<>>
    /\ documentText' = ""
    /\ analysisResult' = Null
    /\ showAnalysis' = FALSE
    /\ error' = NoError
    /\ UNCHANGED <<isUploading, isAnalyzing>>

handleReuploadCancel == showReuploadModal' = FALSE

ReuploadClick ==
    /\ ChatBarRendered
    /\ showReuploadModal' = TRUE
    /\ UNCHANGED <<homeVars, uploadCalls, analysisCalls, exampleFetches, errorTimers>>

\* handleFirstConfirm: onConfirm(); handleClose()
handleFirstConfirm ==
    /\ ModalRendered
    /\ handleReupload
    /\ handleReuploadCancel
    /\ UNCHANGED <<uploadCalls, analysisCalls, exampleFetches, errorTimers>>

\* handleClose calling onConfirm as handleFirstConfirm does
handleCloseConfirms ==
    /\ ModalRendered
    /\ handleReupload
    /\ handleReuploadCancel
    /\ UNCHANGED <<uploadCalls, analysisCalls, exampleFetches, errorTimers>>

\* handleClose: the Cancel button, the close button and a click on the overlay
handleClose ==
    /\ ModalRendered
    /\ handleReuploadCancel
    /\ UNCHANGED <<homeVars, uploadCalls, analysisCalls, exampleFetches, errorTimers>>

(***************************************************************************)
(* HomePage.handleStartAnalysis, up to the await of analyzeDocument.       *)
(***************************************************************************)
handleStartAnalysis ==
    IF ~TruthyText(documentText)
    THEN /\ error' = NoDocumentTextError
         /\ UNCHANGED <<isUploading, uploadedFiles, documentText, analysisResult,
                        isAnalyzing, showAnalysis, analysisCalls>>
    ELSE /\ isAnalyzing' = TRUE
         /\ error' = NoError
         /\ analysisCalls' = Append(analysisCalls, [text |-> documentText])
         /\ UNCHANGED <<isUploading, uploadedFiles, documentText, analysisResult,
                        showAnalysis>>

StartAnalysisClick ==
    /\ StartAnalysisButtonEnabled
    /\ Len(analysisCalls) < MaxAnalysisCalls
    /\ handleStartAnalysis
    /\ UNCHANGED <<showReuploadModal, uploadCalls, exampleFetches, errorTimers>>

\* handleStartAnalysis with setIsAnalyzing(false) at the end of the try body, no finally
AnalysisContinuationNoFinally(response) ==
    IF response.kind = "body" /\ response.success
    THEN /\ analysisResult' = response.data
         /\ showAnalysis' = TRUE
         /\ isAnalyzing' = FALSE
         /\ UNCHANGED <<error, errorTimers, isUploading, uploadedFiles, documentText>>
    ELSE /\ error' = AnalysisFailed(IF response.kind = "reject" THEN response.msg
                                    ELSE "Analysis failed")
         /\ errorTimers' = Append(errorTimers, ErrorTimer)
         /\ UNCHANGED <<isAnalyzing, analysisResult, showAnalysis, isUploading,
                        uploadedFiles, documentText>>

\* handleStartAnalysis after the await: try body, catch, finally
AnalysisContinuation(response) ==
    IF response.kind = "body" /\ response.success
    THEN /\ analysisResult' = response.data
         /\ showAnalysis' = TRUE
         /\ isAnalyzing' = FALSE
         /\ UNCHANGED <<error, errorTimers, isUploading, uploadedFiles, documentText>>
    ELSE /\ error' = AnalysisFailed(IF response.kind = "reject" THEN response.msg
                                    ELSE "Analysis failed")
         /\ errorTimers' = Append(errorTimers, ErrorTimer)
         /\ isAnalyzing' = FALSE
         /\ UNCHANGED <<analysisResult, showAnalysis, isUploading, uploadedFiles,
                        documentText>>

AnalysisFails(response) == ~(response.kind = "body" /\ response.success)

AnalysisSettles(i, response) ==
    /\ i \in 1..Len(analysisCalls)
    /\ response \in AnalysisResponses(analysisCalls[i].text)
    /\ AnalysisFails(response) => Len(errorTimers) < MaxTimers
    /\ AnalysisContinuation(response)
    /\ analysisCalls' = RemoveAt(analysisCalls, i)
    /\ UNCHANGED <<showReuploadModal, uploadCalls, exampleFetches>>

(***************************************************************************)
(* HomePage.handleBackFromAnalysis, the onBack of LegalInsights.           *)
(***************************************************************************)
\* handleBackFromAnalysis discarding the insight as well
handleBackFromAnalysisDiscards ==
    /\ showAnalysis' = FALSE
    /\ analysisResult' = Null
    /\ UNCHANGED <<isUploading, uploadedFiles, documentText, isAnalyzing, error>>

handleBackFromAnalysis ==
    /\ showAnalysis' = FALSE
    /\ UNCHANGED <<isUploading, uploadedFiles, documentText, analysisResult, isAnalyzing,
                   error>>

\* the onBack buttons of LegalInsights
BackClick ==
    /\ LegalInsightsRendered
    /\ handleBackFromAnalysis
    /\ UNCHANGED <<showReuploadModal, uploadCalls, analysisCalls, exampleFetches,
                   errorTimers>>

(***************************************************************************)
(* LegalInsights.  The component is mounted while HomePage renders it; its *)
(* state is created on mount and lost on unmount.  Calls and intervals     *)
(* started by an instance outlive it: their state updates then do nothing, *)
(* and an updater passed to setProgress is never run.                      *)
(***************************************************************************)
Space == " "
Questions == {<<>>, <<Space>>, <<"w">>, <<Space, "w", Space>>}

RECURSIVE TrimStart(_)
TrimStart(q) == IF q # <<>> /\ Head(q) = Space THEN TrimStart(Tail(q)) ELSE q
RECURSIVE TrimEnd(_)
TrimEnd(q) ==
    IF q # <<>> /\ q[Len(q)] = Space THEN TrimEnd(SubSeq(q, 1, Len(q) - 1)) ELSE q
\* String.prototype.trim
Trim(q) == TrimEnd(TrimStart(q))

Answers == {"The term is 2 years", Undefined}
DefaultQuestionError ==
    "Sorry, I encountered an error while processing your question. Please try again."
AskResponses ==
    {[kind |-> "reject", msg |-> m] : m \in Messages \cup {""}} \cup
    {[kind |-> "null"]} \cup
    {[kind |-> "body", answer |-> a] : a \in Answers}

ProgressStep == 10
ProgressCap == 90
ProgressDone == 100

RunningIntervals ==
    Cardinality({i \in 1..Len(askCalls) : askCalls[i].timer}) + liveOrphans + staleOrphans

\* the instance is unmounted: its state is dropped, what it started goes on
Unmount ==
    /\ question' = <<>>
    /\ isLoading' = FALSE
    /\ progress' = 0
    /\ questionResponse' = ""
    /\ questionError' = ""
    /\ askCalls' = [i \in 1..Len(askCalls) |-> [askCalls[i] EXCEPT !.live = FALSE]]
    /\ liveOrphans' = 0
    /\ staleOrphans' = staleOrphans + liveOrphans

\* a step of HomePage or Chat, with what it does to the LegalInsights instance
HomeStep(A) ==
    /\ A
    /\ IF LegalInsightsRendered /\ ~LegalInsightsRendered'
       THEN Unmount
       ELSE UNCHANGED askVars
    /\ UNCHANGED <<mappingVars, serviceVars, dragVars>>

homeAndChatVars == <<homeVars, showReuploadModal, uploadCalls, analysisCalls,
                     exampleFetches, errorTimers, mappingVars, serviceVars, dragVars>>

\* const [question, setQuestion] = useState('')
setQuestion(q) ==
    /\ LegalInsightsRendered
    /\ question' = q
    /\ UNCHANGED <<isLoading, progress, questionResponse, questionError, askCalls,
                   liveOrphans, staleOrphans, homeAndChatVars>>

\* handleAskQuestion testing !question instead of !question.trim()
handleAskQuestionNoTrim ==
    IF question = <<>> \/ ~TruthyText(documentText)
    THEN UNCHANGED askVars
    ELSE /\ isLoading' = TRUE
         /\ progress' = 0
         /\ questionError' = ""
         /\ questionResponse' = ""
         /\ askCalls' = Append(askCalls, [text |-> documentText, question |-> question,
                                          live |-> TRUE, timer |-> TRUE])
         /\ UNCHANGED <<question, liveOrphans, staleOrphans>>

\* handleAskQuestion up to the await of askQuestion
handleAskQuestion ==
    IF Trim(question) = <<>> \/ ~TruthyText(documentText)
    THEN UNCHANGED askVars
    ELSE /\ isLoading' = TRUE
         /\ progress' = 0
         /\ questionError' = ""
         /\ questionResponse' = ""
         /\ askCalls' = Append(askCalls, [text |-> documentText, question |-> question,
                                          live |-> TRUE, timer |-> TRUE])
         /\ UNCHANGED <<question, liveOrphans, staleOrphans>>

AskQuestion ==
    /\ LegalInsightsRendered
    /\ Len(askCalls) < MaxAskCalls
    /\ RunningIntervals < MaxIntervals
    /\ handleAskQuestion
    /\ UNCHANGED homeAndChatVars

\* the updater of setProgress, run for a tick of an interval of the mounted instance
ProgressUpdater(prev) == IF prev >= ProgressCap THEN ProgressCap ELSE prev + ProgressStep

\* a tick of the interval of call i
CallIntervalTick(i) ==
    /\ i \in 1..Len(askCalls)
    /\ askCalls[i].live /\ askCalls[i].timer
    /\ progress' = ProgressUpdater(progress)
    /\ askCalls' = IF progress >= ProgressCap
                   THEN [askCalls EXCEPT ![i].timer = FALSE]
                   ELSE askCalls
    /\ UNCHANGED <<question, isLoading, questionResponse, questionError, liveOrphans,
                   staleOrphans, homeAndChatVars>>

\* a tick of an interval left running by a failed call
OrphanIntervalTick ==
    /\ liveOrphans > 0
    /\ progress' = ProgressUpdater(progress)
    /\ liveOrphans' = IF progress >= ProgressCap THEN liveOrphans - 1 ELSE liveOrphans
    /\ UNCHANGED <<question, isLoading, questionResponse, questionError, askCalls,
                   staleOrphans, homeAndChatVars>>

AskSucceeds(response) == response.kind = "body"

\* handleAskQuestion after the await: try body, catch, finally
AskContinuation(call, response) ==
    IF AskSucceeds(response)
    THEN /\ IF call.live
            THEN /\ questionResponse' = response.answer
                 /\ progress' = ProgressDone
                 /\ isLoading' = FALSE
            ELSE UNCHANGED <<questionResponse, progress, isLoading>>
         /\ UNCHANGED <<questionError, liveOrphans, staleOrphans>>
    ELSE /\ IF call.live
            THEN /\ questionError' =
                       (IF response.kind = "null"
                        THEN "Cannot read properties of null (reading 'answer')"
                        ELSE IF response.msg = "" THEN DefaultQuestionError
                        ELSE response.msg)
                 /\ isLoading' = FALSE
                 /\ liveOrphans' = IF call.timer THEN liveOrphans + 1 ELSE liveOrphans
                 /\ UNCHANGED staleOrphans
            ELSE /\ staleOrphans' = IF call.timer THEN staleOrphans + 1 ELSE staleOrphans
                 /\ UNCHANGED <<questionError, isLoading, liveOrphans>>
         /\ UNCHANGED <<questionResponse, progress>>

AskSettles(i, response) ==
    /\ i \in 1..Len(askCalls)
    /\ AskContinuation(askCalls[i], response)
    /\ askCalls' = RemoveAt(askCalls, i)
    /\ UNCHANGED <<question, homeAndChatVars>>

\* the Dismiss button of the question error card
DismissQuestionError ==
    /\ LegalInsightsRendered
    /\ questionError # "" /\ ~isLoading
    /\ questionError' = ""
    /\ UNCHANGED <<question, isLoading, progress, questionResponse, askCalls,
                   liveOrphans, staleOrphans, homeAndChatVars>>

(***************************************************************************)
(* The workflow of HomePage and Chat.  No operation of LegalInsights is    *)
(* taken, so its state stays as created.                                   *)
(***************************************************************************)
Next ==
    \/ \E files \in FileLists : HomeStep(FileInputChange(files))
    \/ \E files \in FileLists : HomeStep(UploadZoneDrop(files))
    \/ HomeStep(LoadExampleClick)
    \/ HomeStep(ExampleFetched)
    \/ HomeStep(ExampleFetchFailed)
    \/ \E i \in 1..Len(uploadCalls), r \in UploadResponses : HomeStep(UploadSettles(i, r))
    \/ HomeStep(ErrorTimerFires)
    \/ HomeStep(ReuploadClick)
    \/ HomeStep(handleFirstConfirm)
    \/ HomeStep(handleClose)
    \/ HomeStep(StartAnalysisClick)
    \/ \E i \in 1..Len(analysisCalls) :
          \E r \in AnalysisResponses(analysisCalls[i].text) :
             HomeStep(AnalysisSettles(i, r))
    \/ HomeStep(BackClick)

Spec == Init /\ [][Next]_vars

(***************************************************************************)
(* The workflow with its scheduling: a pending collaborator call settles,  *)
(* with any response, and an armed timer fires.  Files are dropped one at  *)
(* a time on the upload zone.                                              *)
(***************************************************************************)
NextLive ==
    \/ HomeStep(UploadZoneDrop(<<"contract.pdf">>))
    \/ \E i \in 1..Len(uploadCalls), r \in UploadResponses : HomeStep(UploadSettles(i, r))
    \/ HomeStep(ErrorTimerFires)
    \/ HomeStep(ReuploadClick)
    \/ HomeStep(handleFirstConfirm)
    \/ HomeStep(StartAnalysisClick)
    \/ \E i \in 1..Len(analysisCalls) :
          \E r \in AnalysisResponses(analysisCalls[i].text) :
             HomeStep(AnalysisSettles(i, r))

SpecLive ==
    /\ Init /\ [][NextLive]_vars
    /\ WF_vars(\E i \in 1..Len(uploadCalls), r \in UploadResponses :
                  HomeStep(UploadSettles(i, r)))
    /\ WF_vars(\E i \in 1..Len(analysisCalls) :
                  \E r \in AnalysisResponses(analysisCalls[i].text) :
                     HomeStep(AnalysisSettles(i, r)))
    /\ WF_vars(HomeStep(ErrorTimerFires))

(***************************************************************************)
(* LegalInsights with the workflow around it: one file dropped at a time,  *)
(* uploads answered with a processed document, analyses with a result.     *)
(***************************************************************************)
AskUploadResponses ==
    {[kind |-> "body", success |-> TRUE,
      data |-> [tag |-> "data", text |-> t, metadata |-> "meta"]] : t \in {"", "text A"}}
AskAnalysisResponses(text) ==
    {[kind |-> "body", success |-> TRUE,
      data |-> [tag |-> "data", forText |-> text, result |-> "r1"]]}

NextAsk ==
    \/ HomeStep(UploadZoneDrop(<<"contract.pdf">>))
    \/ \E i \in 1..Len(uploadCalls), r \in AskUploadResponses :
          HomeStep(UploadSettles(i, r))
    \/ HomeStep(StartAnalysisClick)
    \/ \E i \in 1..Len(analysisCalls) :
          \E r \in AskAnalysisResponses(analysisCalls[i].text) :
             HomeStep(AnalysisSettles(i, r))
    \/ HomeStep(BackClick)
    \/ HomeStep(ReuploadClick)
    \/ HomeStep(handleFirstConfirm)
    \/ \E q \in Questions : setQuestion(q)
    \/ AskQuestion
    \/ \E i \in 1..Len(askCalls) : CallIntervalTick(i)
    \/ OrphanIntervalTick
    \/ \E i \in 1..Len(askCalls), r \in AskResponses : AskSettles(i, r)
    \/ DismissQuestionError

SpecAsk == Init /\ [][NextAsk]_vars

(***************************************************************************)
(* The result mapping of LegalInsights (LegalInsights.jsx:992-1104): the   *)
(* part of the component body that turns analysisData into what is shown.  *)
(* Modelled are the key clauses, the risk level, the risk score and the    *)
(* Risk Level row of the comparison table.  An exception in the body makes *)
(* the render fail as a whole.                                             *)
(***************************************************************************)
MaxProvisions == 2      \* entries of key_provisions

UpperLetters == <<"A", "B", "C", "D", "E", "F", "G", "H", "I", "J", "K", "L", "M",
                  "N", "O", "P", "Q", "R", "S", "T", "U", "V", "W", "X", "Y", "Z">>
LowerLetters == <<"a", "b", "c", "d", "e", "f", "g", "h", "i", "j", "k", "l", "m",
                  "n", "o", "p", "q", "r", "s", "t", "u", "v", "w", "x", "y", "z">>
LetterIndex(letters, c) == CHOOSE i \in 1..Len(letters) : letters[i] = c
IsLetterOf(letters, c) == \E i \in 1..Len(letters) : letters[i] = c

\* String.prototype.toLowerCase and toUpperCase
toLowerCase(chars) ==
    [i \in 1..Len(chars) |->
        IF IsLetterOf(UpperLetters, chars[i])
        THEN LowerLetters[LetterIndex(UpperLetters, chars[i])]
        ELSE chars[i]]
toUpperCase(chars) ==
    [i \in 1..Len(chars) |->
        IF IsLetterOf(LowerLetters, chars[i])
        THEN UpperLetters[LetterIndex(LowerLetters, chars[i])]
        ELSE chars[i]]

DigitChars == <<"0", "1", "2", "3", "4", "5", "6", "7", "8", "9">>
RECURSIVE Digits(_)
Digits(n) == IF n < 10 THEN <<DigitChars[n + 1]>>
             ELSE Digits(n \div 10) \o <<DigitChars[(n % 10) + 1]>>

\* the digits after the point, without trailing zeros
RECURSIVE TrimZeros(_)
TrimZeros(d) ==
    IF d # <<>> /\ d[Len(d)] = "0" THEN TrimZeros(SubSeq(d, 1, Len(d) - 1)) ELSE d

\* Number.prototype.toString for the numbers of the model
NumberToString(n) ==
    IF n.kind = "NaN" THEN <<"N", "a", "N">>
    ELSE (IF n.neg THEN <<"-">> ELSE <<>>) \o
         (IF n.kind = "Infinity" THEN <<"I", "n", "f", "i", "n", "i", "t", "y">>
          ELSE Digits(n.whole) \o
               (IF n.part = 0 THEN <<>>
                ELSE <<".">> \o TrimZeros(<<DigitChars[(n.part \div 1000) + 1],
                                            DigitChars[((n.part \div 100) % 10) + 1],
                                            DigitChars[((n.part \div 10) % 10) + 1],
                                            DigitChars[(n.part % 10) + 1]>>)))

\* the string a template literal puts in place of ${v}
TemplateString(v) ==
    IF v.t = "undefined" THEN <<"u", "n", "d", "e", "f", "i", "n", "e", "d">>
    ELSE IF v.t = "null" THEN <<"n", "u", "l", "l">>
    ELSE IF v.t = "string" THEN v.s
    ELSE IF v.t = "number" THEN NumberToString(v)
    ELSE <<"[", "o", "b", "j", "e", "c", "t", " ", "O", "b", "j", "e", "c", "t", "]">>

\* ToBoolean
Truthy(v) ==
    IF v.t \in {"undefined", "null"} THEN FALSE
    ELSE IF v.t = "number"
         THEN v.kind = "Infinity" \/ (v.kind = "finite" /\ (v.whole > 0 \/ v.part > 0))
    ELSE IF v.t = "string" THEN v.s # <<>>
    ELSE TRUE

\* a || b
Or(a, b) == IF Truthy(a) THEN a ELSE b

\* v.f for a v that is neither null nor undefined
Get(v, f) == IF v.t = "object" /\ f \in DOMAIN v THEN v[f] ELSE JsUndefined

\* {}
EmptyObject == [t |-> "object"]

\* const result = analysisData?.result || {}
result(data) ==
    Or(IF data.t \in {"undefined", "null"} THEN JsUndefined ELSE Get(data, "result"),
       EmptyObject)

\* const keyProvisions = result.key_provisions || []
keyProvisions(res) == Or(Get(res, "key_provisions"), JsArray(<<>>))

\* keyProvisions.length > 0
HasPositiveLength(v) ==
    \/ v.t = "array" /\ Len(v.items) > 0
    \/ v.t = "string" /\ Len(v.s) > 0

KeyClausesPlaceholder ==
    << <<"Document uploaded successfully and ready for AI analysis.">>,
       <<"Comprehensive insights will be generated to help you understand important provisions.">>,
       <<"Risk assessment and recommendations will be provided based on document content.">>,
       <<"Legal glossary will highlight key terms and definitions found in your document.">> >>

\* keyProvisions.map(...) throws: map is no function of a string, and
\* provision.section cannot be read of a null or undefined entry
keyClausesThrows(res) ==
    LET kp == keyProvisions(res) IN
    /\ HasPositiveLength(kp)
    /\ \/ kp.t # "array"
       \/ \E i \in 1..Len(kp.items) : kp.items[i].t \in {"undefined", "null"}

\* `${provision.section}: ${provision.content}`
formatProvision(provision) ==
    TemplateString(Get(provision, "section")) \o <<":", " ">> \o
    TemplateString(Get(provision, "content"))

\* keyClausesData with the provisions mapped in reverse order
keyClausesDataReversed(res) ==
    LET kp == keyProvisions(res) IN
    IF HasPositiveLength(kp)
    THEN [i \in 1..Len(kp.items) |-> formatProvision(kp.items[Len(kp.items) + 1 - i])]
    ELSE KeyClausesPlaceholder

\* keyClausesData without the placeholder: the mapped provisions, however few
keyClausesDataNoPlaceholder(res) ==
    LET kp == keyProvisions(res) IN
    IF kp.t = "array"
    THEN [i \in 1..Len(kp.items) |-> formatProvision(kp.items[i])]
    ELSE <<>>

\* keyClausesData, when it does not throw
keyClausesData(res) ==
    LET kp == keyProvisions(res) IN
    IF HasPositiveLength(kp)
    THEN [i \in 1..Len(kp.items) |-> formatProvision(kp.items[i])]
    ELSE KeyClausesPlaceholder

\* const riskAssessment = result.risk_assessment || {}
riskAssessment(res) == Or(Get(res, "risk_assessment"), EmptyObject)

\* const riskLevel = riskAssessment.overall_risk_level || 'PENDING'
riskLevel(res) ==
    Or(Get(riskAssessment(res), "overall_risk_level"), JsString(<<"P", "E", "N", "D", "I", "N", "G">>))

\* riskMap[key]: the own properties of the literal, then those it inherits
riskMap(key) ==
    IF key = <<"n", "o", "n", "e">> THEN JsNumber(FALSE, 0, 0)
    ELSE IF key = <<"l", "o", "w">> THEN JsNumber(FALSE, 25, 0)
    ELSE IF key = <<"m", "o", "d", "e", "r", "a", "t", "e">> THEN JsNumber(FALSE, 40, 0)
    ELSE IF key = <<"m", "e", "d", "i", "u", "m">> THEN JsNumber(FALSE, 50, 0)
    ELSE IF key = <<"h", "i", "g", "h">> THEN JsNumber(FALSE, 75, 0)
    ELSE IF key = <<"c", "r", "i", "t", "i", "c", "a", "l">> THEN JsNumber(FALSE, 90, 0)
    ELSE IF key = <<"p", "e", "n", "d", "i", "n", "g">> THEN JsNumber(FALSE, 0, 0)
    ELSE IF key = <<"c", "o", "n", "s", "t", "r", "u", "c", "t", "o", "r">> THEN JsObjectFunction
    ELSE IF key = <<"_", "_", "p", "r", "o", "t", "o", "_", "_">> THEN JsObjectPrototype
    ELSE JsUndefined

\* getRiskScore looking the level up as it is written, without toLowerCase
getRiskScoreCaseSensitive(level) ==
    Or(riskMap(IF level.t = "string" THEN level.s ELSE <<"u", "n", "d", "e", "f", "i", "n", "e", "d">>),
       JsNumber(FALSE, 0, 0))

\* riskMap[riskLevel?.toLowerCase?.()] || 0
getRiskScore(level) ==
    Or(riskMap(IF level.t = "string" THEN toLowerCase(level.s) ELSE <<"u", "n", "d", "e", "f", "i", "n", "e", "d">>),
       JsNumber(FALSE, 0, 0))

\* typeof score === 'number' && !isNaN(score) ? score : getRiskScore(riskLevel)
riskScore(res) ==
    LET score == Get(riskAssessment(res), "score") IN
    IF score.t = "number" /\ score.kind # "NaN"
    THEN score
    ELSE getRiskScore(riskLevel(res))

\* the number a string converts to in an arithmetic expression: the value of
\* a string of digits, NaN for a string with any other character in it
RECURSIVE DigitsValue(_)
DigitsValue(chars) ==
    IF chars = <<>> THEN 0
    ELSE DigitsValue(SubSeq(chars, 1, Len(chars) - 1)) * 10 +
         (LetterIndex(DigitChars, chars[Len(chars)]) - 1)
ToNumber(v) ==
    IF v.t = "number" THEN v
    ELSE IF v.t = "string" /\ \A i \in 1..Len(v.s) : IsLetterOf(DigitChars, v.s[i])
    THEN JsNumber(FALSE, DigitsValue(v.s), 0)
    ELSE JsNaN

\* x * 100
Times100(v) ==
    LET n == ToNumber(v) IN
    IF n.kind # "finite" THEN n
    ELSE JsNumber(n.neg, n.whole * 100 + (n.part \div 100), (n.part % 100) * 100)

\* Math.round: to the nearest integer, a half going up
MathRound(n) ==
    IF n.kind # "finite" THEN n
    ELSE IF n.neg THEN JsNumber(TRUE, n.whole + (IF n.part > 5000 THEN 1 ELSE 0), 0)
    ELSE JsNumber(FALSE, n.whole + (IF n.part >= 5000 THEN 1 ELSE 0), 0)

DefaultConfidence == JsNumber(FALSE, 0, 8000)

\* const confidenceScore = Math.round((result.confidence_score || 0.8) * 100)
confidenceScore(res) ==
    MathRound(Times100(Or(Get(res, "confidence_score"), DefaultConfidence)))

\* the component body from line 992 on, for the prop analysisData
ResultMapping(data) ==
    LET res == result(data) IN
    IF keyClausesThrows(res)
    THEN [status |-> "threw", error |-> "TypeError"]
    ELSE IF riskLevel(res).t # "string"
    THEN [status |-> "threw", error |-> "TypeError"]   \* riskLevel.toUpperCase()
    ELSE [status |-> "returned",
          keyClauses |-> keyClausesData(res),
          riskLevel |-> riskLevel(res),
          riskScore |-> riskScore(res),
          riskLevelRow |-> toUpperCase(riskLevel(res).s),
          confidenceScore |-> confidenceScore(res)]

(***************************************************************************)
(* The payloads the mapping is run on.                                     *)
(***************************************************************************)
RiskLevelInputs ==
    {JsUndefined, JsNull, JsNumber(FALSE, 5, 0)} \cup
    {JsString(c) : c \in {<<>>, <<"n", "o", "n", "e">>, <<"l", "o", "w">>, <<"m", "o", "d", "e", "r", "a", "t", "e">>, <<"m", "e", "d", "i", "u", "m">>, <<"h", "i", "g", "h">>, <<"c", "r", "i", "t", "i", "c", "a", "l">>,
                          <<"p", "e", "n", "d", "i", "n", "g">>, <<"H", "i", "g", "h">>, <<"M", "O", "D", "E", "R", "A", "T", "E">>, <<"u", "n", "k", "n", "o", "w", "n", "-", "v", "a", "l", "u", "e">>, <<"c", "o", "n", "s", "t", "r", "u", "c", "t", "o", "r">>}}

ScoreInputs ==
    {JsUndefined, JsNull, JsNaN, JsInfinity, JsString(<<"6", "2">>),
     JsNumber(FALSE, 62, 0), JsNumber(FALSE, 0, 0), JsNumber(TRUE, 5, 0),
     JsNumber(FALSE, 150, 0), JsNumber(FALSE, 62, 5000)}

RiskAssessmentInputs ==
    {JsUndefined} \cup
    {[t |-> "object", overall_risk_level |-> l, score |-> n] :
        l \in RiskLevelInputs, n \in ScoreInputs}

ProvisionInputs ==
    {JsNull,
     [t |-> "object", section |-> JsString(<<"T", "e", "r", "m">>), content |-> JsString(<<"2", " ", "y", "e", "a", "r", "s">>)],
     [t |-> "object", section |-> JsString(<<"F", "e", "e">>), content |-> JsString(<<"$", "5", "0", "0">>)],
     [t |-> "object", content |-> JsString(<<"X">>)],
     [t |-> "object", section |-> JsString(<<"T", "e", "r", "m">>)]}

KeyProvisionsInputs ==
    {JsUndefined, JsNull, JsString(<<"a", "b", "c">>), JsNumber(FALSE, 5, 0)} \cup
    {JsArray(a) : a \in UNION {[1..n -> ProvisionInputs] : n \in 0..MaxProvisions}}

ConfidenceInputs ==
    {JsNull, JsNaN, JsString(<<"h", "i", "g", "h">>), JsString(<<"1">>),
     JsNumber(FALSE, 0, 0), JsNumber(FALSE, 0, 5000), JsNumber(FALSE, 0, 8760),
     JsNumber(FALSE, 0, 9300), JsNumber(FALSE, 1, 0), JsNumber(FALSE, 1, 5000)}

AnalysisDataInputs ==
    {JsNull, EmptyObject, [t |-> "object", result |-> EmptyObject]} \cup
    {[t |-> "object", result |-> [t |-> "object", confidence_score |-> c]] :
        c \in ConfidenceInputs} \cup
    {[t |-> "object", result |-> [t |-> "object", key_provisions |-> k,
                                  risk_assessment |-> r]] :
        k \in KeyProvisionsInputs, r \in RiskAssessmentInputs}

InitMapping ==
    /\ isUploading = FALSE
    /\ uploadedFiles = <<>>
    /\ documentText = ""
    /\ analysisResult = Null
    /\ isAnalyzing = FALSE
    /\ showAnalysis = FALSE
    /\ error = NoError
    /\ showReuploadModal = FALSE
    /\ uploadCalls = <<>>
    /\ analysisCalls = <<>>
    /\ exampleFetches = 0
    /\ errorTimers = <<>>
    /\ question = <<>>
    /\ isLoading = FALSE
    /\ progress = 0
    /\ questionResponse = ""
    /\ questionError = ""
    /\ askCalls = <<>>
    /\ liveOrphans = 0
    /\ staleOrphans = 0
    /\ analysisData \in AnalysisDataInputs
    /\ rendered = NotRendered
    /\ report = NoReport
    /\ httpResponse = NoResponse
    /\ handled = NotHandled
    /\ dragCounter = 0
    /\ isGlobalDragActive = FALSE

\* the component body runs for the analysisData it was given
RenderLegalInsights ==
    /\ rendered = NotRendered
    /\ rendered' = ResultMapping(analysisData)
    /\ UNCHANGED <<analysisData, report, homeVars, showReuploadModal, uploadCalls,
                   analysisCalls, exampleFetches, errorTimers, askVars, serviceVars,
                   dragVars>>

(***************************************************************************)
(* downloadPDFReport (LegalInsights.jsx:728-990).  Its try block maps      *)
(* analysisData again with code of its own (791-868) and writes the PDF    *)
(* from that; when the try block fails, the catch block writes a text      *)
(* report from the values the component body computed for the view.        *)
(***************************************************************************)
\* riskLevel === 'low' ? 25 : riskLevel === 'medium' ? 50 : riskLevel === 'high' ? 75
\*     : riskLevel === 'critical' ? 90 : 0
reportRiskScore(level) ==
    IF level = JsString(<<"l", "o", "w">>) THEN JsNumber(FALSE, 25, 0)
    ELSE IF level = JsString(<<"m", "e", "d", "i", "u", "m">>) THEN JsNumber(FALSE, 50, 0)
    ELSE IF level = JsString(<<"h", "i", "g", "h">>) THEN JsNumber(FALSE, 75, 0)
    ELSE IF level = JsString(<<"c", "r", "i", "t", "i", "c", "a", "l">>) THEN JsNumber(FALSE, 90, 0)
    ELSE JsNumber(FALSE, 0, 0)

\* the data mapping of the try block
ReportMapping(data) ==
    LET res == result(data) IN
    IF keyClausesThrows(res) \/ riskLevel(res).t # "string"
    THEN [status |-> "threw", error |-> "TypeError"]
    ELSE [status |-> "pdf",
          keyClauses |-> keyClausesData(res),
          riskLevel |-> riskLevel(res),
          riskScore |-> reportRiskScore(riskLevel(res)),
          riskLevelRow |-> toUpperCase(riskLevel(res).s)]

\* the text report of the catch block, from the values of the view
TextReport(view) ==
    [status |-> "text",
     keyClauses |-> view.keyClauses,
     riskLevel |-> view.riskLevel,
     riskScore |-> view.riskScore,
     riskLevelRow |-> view.riskLevelRow]

\* the Download PDF button of the rendered view; jsPDF loads and writes, or fails
downloadPDFReport(pdfWorks) ==
    /\ rendered # NotRendered /\ rendered.status = "returned"
    /\ report = NoReport
    /\ report' = (IF pdfWorks /\ ReportMapping(analysisData).status = "pdf"
                  THEN ReportMapping(analysisData)
                  ELSE TextReport(rendered))
    /\ UNCHANGED <<analysisData, rendered, homeVars, showReuploadModal, uploadCalls,
                   analysisCalls, exampleFetches, errorTimers, askVars, serviceVars,
                   dragVars>>

NextMapping ==
    \/ RenderLegalInsights
    \/ \E pdfWorks \in BOOLEAN : downloadPDFReport(pdfWorks)

SpecMapping == InitMapping /\ [][NextMapping]_vars

(***************************************************************************)
(* APIService.handleResponse (apiService.js:11-19), which every call of    *)
(* the service passes its fetch response to.  The body of a response is    *)
(* what response.json() makes of it: a parsed value, or a SyntaxError for  *)
(* a body that is not JSON.                                                *)
(***************************************************************************)
ApiCalls == {"healthCheck", "uploadDocument", "uploadAndAnalyze", "analyzeDocument",
             "askQuestion", "explainClause"}
Statuses == {200, 201, 400, 404, 413, 500}
NotJson == [t |-> "not json"]
ErrorBody(e) == [t |-> "object", error |-> e]
Bodies ==
    {NotJson, JsNull, EmptyObject, JsString(<<"Internal Server Error">>),
     [t |-> "object", data |-> JsString(<<"payload">>)],
     ErrorBody(JsNull), ErrorBody(EmptyObject), ErrorBody(JsString(<<"Bad Request">>)),
     ErrorBody([t |-> "object", message |-> JsString(<<>>)]),
     ErrorBody([t |-> "object", message |-> JsString(<<"File type not allowed">>)])}
HttpResponses == [call : ApiCalls, status : Statuses, body : Bodies]

\* response.ok
Ok(response) == response.status >= 200 /\ response.status <= 299

\* `HTTP error! status: ${response.status}`
HttpErrorMessage(response) ==
    JsString(<<"HTTP error! status: ">> \o Digits(response.status))

\* v?.f
OptionalGet(v, f) == IF v.t \in {"undefined", "null"} THEN JsUndefined ELSE Get(v, f)

Thrown(name, message) == [outcome |-> "threw", name |-> name, message |-> message]

handleResponse(response) ==
    IF response.body = NotJson
    THEN Thrown("SyntaxError", <<"Unexpected token">>)
    ELSE IF ~Ok(response)
    THEN IF response.body.t = "null"
         THEN Thrown("TypeError", <<"Cannot read properties of null (reading 'error')">>)
         ELSE Thrown("Error",
                     TemplateString(Or(OptionalGet(Get(response.body, "error"), "message"),
                                       HttpErrorMessage(response))))
    ELSE [outcome |-> "returned", data |-> response.body]

InitService ==
    /\ isUploading = FALSE
    /\ uploadedFiles = <<>>
    /\ documentText = ""
    /\ analysisResult = Null
    /\ isAnalyzing = FALSE
    /\ showAnalysis = FALSE
    /\ error = NoError
    /\ showReuploadModal = FALSE
    /\ uploadCalls = <<>>
    /\ analysisCalls = <<>>
    /\ exampleFetches = 0
    /\ errorTimers = <<>>
    /\ question = <<>>
    /\ isLoading = FALSE
    /\ progress = 0
    /\ questionResponse = ""
    /\ questionError = ""
    /\ askCalls = <<>>
    /\ liveOrphans = 0
    /\ staleOrphans = 0
    /\ analysisData = JsNull
    /\ rendered = NotRendered
    /\ report = NoReport
    /\ httpResponse \in HttpResponses
    /\ handled = NotHandled
    /\ dragCounter = 0
    /\ isGlobalDragActive = FALSE

\* return await this.handleResponse(response)
ResponseHandled ==
    /\ handled = NotHandled
    /\ handled' = handleResponse(httpResponse)
    /\ UNCHANGED <<httpResponse, homeVars, showReuploadModal, uploadCalls, analysisCalls,
                   exampleFetches, errorTimers, askVars, mappingVars, dragVars>>

NextService == ResponseHandled

SpecService == InitService /\ [][NextService]_vars

(***************************************************************************)
(* The global drag handlers of HomePage (HomePage.jsx:26-70) and the drop  *)
(* overlay of Chat, which is rendered in the upload section while          *)
(* isGlobalDragActive.  A drop fires the overlay's onDrop, when it lands   *)
(* on the overlay, and then the document's drop listener.                  *)
(***************************************************************************)
MaxDragDepth == 3       \* nested dragenter events counted

notDragVars == <<homeVars, showReuploadModal, uploadCalls, analysisCalls, exampleFetches,
                 errorTimers, askVars, mappingVars, serviceVars>>

\* setIsGlobalDragActive(false); dragCounter = 0
ResetDrag ==
    /\ isGlobalDragActive' = FALSE
    /\ dragCounter' = 0

handleDragEnter(hasFiles) ==
    /\ dragCounter < MaxDragDepth
    /\ IF hasFiles
       THEN /\ dragCounter' = dragCounter + 1
            /\ isGlobalDragActive' = TRUE
       ELSE UNCHANGED dragVars
    /\ UNCHANGED notDragVars

handleDragLeave ==
    /\ IF dragCounter - 1 <= 0
       THEN ResetDrag
       ELSE /\ dragCounter' = dragCounter - 1
            /\ UNCHANGED isGlobalDragActive
    /\ UNCHANGED notDragVars

\* handleDrop hiding the overlay and leaving the counter as it is
handleDropKeepsCounter ==
    /\ isGlobalDragActive' = FALSE
    /\ dragCounter' = dragCounter
    /\ UNCHANGED notDragVars

\* a drop outside the overlay: the document listener
handleDrop ==
    /\ ResetDrag
    /\ UNCHANGED notDragVars

\* a drop on the overlay: its onDrop, then the document listener
OverlayDrop(files) ==
    /\ isGlobalDragActive /\ UploadSectionRendered
    /\ Len(uploadCalls) < MaxUploadCalls
    /\ handleFileUpload(files)
    /\ ResetDrag
    /\ UNCHANGED <<showReuploadModal, exampleFetches, askVars, mappingVars, serviceVars>>

handleDragEnd ==
    /\ ResetDrag
    /\ UNCHANGED notDragVars

\* mouseleave; onDocumentElement is e.target === document.documentElement
handleMouseLeave(onDocumentElement) ==
    /\ IF onDocumentElement THEN ResetDrag ELSE UNCHANGED dragVars
    /\ UNCHANGED notDragVars

NextDrag ==
    \/ \E hasFiles \in BOOLEAN : handleDragEnter(hasFiles)
    \/ handleDragLeave
    \/ handleDrop
    \/ \E files \in FileLists : OverlayDrop(files)
    \/ handleDragEnd
    \/ \E onDocumentElement \in BOOLEAN : handleMouseLeave(onDocumentElement)
    \/ \E i \in 1..Len(uploadCalls), r \in AskUploadResponses :
          HomeStep(UploadSettles(i, r))
    \/ HomeStep(ReuploadClick)
    \/ HomeStep(handleFirstConfirm)

SpecDrag == Init /\ [][NextDrag]_vars

(***************************************************************************)
(* The states of the workflow controller (spec, section 4.1), read off the *)
(* HomePage state.  Analyzed is a document with its insight displayed; an  *)
(* insight displayed with no document stored is none of the five states.   *)
(***************************************************************************)
Stage ==
    IF isUploading THEN "Uploading"
    ELSE IF isAnalyzing THEN "Analyzing"
    ELSE IF LegalInsightsRendered /\ ChatBarRendered THEN "Analyzed"
    ELSE IF LegalInsightsRendered THEN "InsightWithoutDocument"
    ELSE IF ChatBarRendered THEN "Ready"
    ELSE "Empty"

InFlight == Len(uploadCalls) + Len(analysisCalls) + Len(askCalls)

UploadIssued == Len(uploadCalls') > Len(uploadCalls)
AnalysisIssued == Len(analysisCalls') > Len(analysisCalls)
UploadReturned == Len(uploadCalls') < Len(uploadCalls)
AnalysisReturned == Len(analysisCalls') < Len(analysisCalls)
ErrorTimerArmed == Len(errorTimers') > Len(errorTimers)

(***************************************************************************)
(* C1.  At most one collaborator call among upload, analysis and question  *)
(* is in flight at any time.                                               *)
(* Fails: the drop zone and Load Example reach handleFileUpload while an   *)
(* upload is pending.                                                      *)
(***************************************************************************)
C1_SingleInFlight == InFlight <= 1

(***************************************************************************)
(* C2.  While the controller is Analyzing exactly one analysis call is in  *)
(* flight and no step issues another; isAnalyzing turns false only in the  *)
(* step in which that call returns, and then the stored insight is either  *)
(* a result of that call (analysis shown) or, on failure, what it was.     *)
(***************************************************************************)
C2_AnalysisGuard ==
    [][isAnalyzing =>
        /\ Len(analysisCalls) = 1
        /\ ~AnalysisIssued
        /\ IF AnalysisReturned
           THEN /\ ~isAnalyzing'
                /\ \/ /\ analysisResult' \in AnalysisData(analysisCalls[1].text)
                      /\ showAnalysis'
                   \/ /\ analysisResult' = analysisResult
                      /\ showAnalysis' = showAnalysis
                      /\ error'.src = "Analysis failed"
           ELSE isAnalyzing' /\ analysisCalls' = analysisCalls]_vars

\* an analysis is pending and the Start Analysis button is rendered, disabled
C2_Witness ==
    /\ isAnalyzing
    /\ Len(analysisCalls) = 1
    /\ ChatBarRendered
    /\ ~TruthyValue(analysisResult)

(***************************************************************************)
(* C3.  Confirming a reupload from Analyzed leaves no document, no         *)
(* document text, no insight and no analysis view; a startAnalysis then    *)
(* finds no document text, so its validation fails, and its button is not  *)
(* rendered: no analysis call can be issued.                               *)
(***************************************************************************)
C3_ReuploadDiscards ==
    [][(Stage = "Analyzed" /\ HomeStep(handleFirstConfirm)) =>
        /\ uploadedFiles' = <<>>
        /\ documentText' = ""
        /\ analysisResult' = Null
        /\ showAnalysis' = FALSE
        /\ Stage' = "Empty"
        /\ ~TruthyText(documentText')
        /\ ~StartAnalysisButtonEnabled'
        /\ analysisCalls' = analysisCalls]_vars

\* the confirmation prompt is open over a displayed analysis
C3_Witness == ModalRendered /\ Stage = "Analyzed"

(***************************************************************************)
(* C4.  An upload attempt that ends with an "Upload failed" message leaves *)
(* uploadedFiles and documentText as they were.                            *)
(* Fails: a success response without data.text stores the document before  *)
(* the exception that surfaces the message.                                *)
(***************************************************************************)
C4_FailedUploadKeepsDocument ==
    [][(UploadReturned /\ ErrorTimerArmed /\ error'.src = "Upload failed") =>
        UNCHANGED <<uploadedFiles, documentText>>]_vars

(***************************************************************************)
(* C5.  When the only upload, submitted from Empty, fails, the error       *)
(* message is present at once with isUploading false and the controller    *)
(* holds no document, so that the timer, which clears the message and      *)
(* nothing else, leaves it in Empty.                                       *)
(* Fails for the response of C4: the controller holds a document.          *)
(***************************************************************************)
C5_UploadErrorAutoClear ==
    [][/\ (/\ UploadReturned /\ ErrorTimerArmed
           /\ Len(uploadCalls) = 1 /\ uploadedFiles = <<>> /\ documentText = ""
           /\ ~isAnalyzing /\ ~showAnalysis)
          => /\ error'.src = "Upload failed"
             /\ ~isUploading'
             /\ errorTimers'[Len(errorTimers')].delay = ErrorClearDelay
             /\ Stage' = "Empty"
       /\ HomeStep(ErrorTimerFires) =>
             (error' = NoError /\ (Stage = "Empty" => Stage' = "Empty"))
      ]_vars

(***************************************************************************)
(* C6.  When the analysis call fails the controller carries an "Analysis   *)
(* failed" message with isAnalyzing false, the document, its text, the     *)
(* stored insight and what is displayed are unchanged, and a timer of 5 s  *)
(* is armed; the timer clears the message and nothing else, so a           *)
(* controller in Ready stays in Ready.                                     *)
(***************************************************************************)
C6_AnalysisFailure ==
    [][/\ \A i \in 1..Len(analysisCalls) :
            \A r \in AnalysisResponses(analysisCalls[i].text) :
               (AnalysisFails(r) /\ HomeStep(AnalysisSettles(i, r))) =>
                  /\ error' = AnalysisFailed(IF r.kind = "reject" THEN r.msg
                                             ELSE "Analysis failed")
                  /\ ~isAnalyzing'
                  /\ UNCHANGED <<uploadedFiles, documentText, analysisResult,
                                 showAnalysis, isUploading>>
                  /\ errorTimers' = Append(errorTimers, [delay |-> ErrorClearDelay])
       /\ HomeStep(ErrorTimerFires) =>
             /\ error' = NoError
             /\ UNCHANGED <<uploadedFiles, documentText, analysisResult, showAnalysis,
                            isUploading, isAnalyzing>>
             /\ (Stage = "Ready" => Stage' = "Ready")
      ]_vars

\* Ready again after a failed analysis, the message shown and its timer armed
C6_Witness ==
    /\ error.src = "Analysis failed"
    /\ Stage = "Ready"
    /\ errorTimers # <<>>
    /\ analysisCalls = <<>>

(***************************************************************************)
(* C7.  A validation failure changes no state variable and starts no call: *)
(* startAnalysis with no document text, askQuestion with an empty or       *)
(* blank question or with no document text.                                *)
(* Fails: handleStartAnalysis sets the error message.                      *)
(***************************************************************************)
StartAnalysisInvalid == HomeStep(StartAnalysisClick) /\ ~TruthyText(documentText)
AskQuestionInvalid ==
    AskQuestion /\ (Trim(question) = <<>> \/ ~TruthyText(documentText))

C7_ValidationNoOp ==
    [][(StartAnalysisInvalid \/ AskQuestionInvalid) => UNCHANGED vars]_vars

(***************************************************************************)
(* C7, amended.  A validation failure starts no call and changes no state  *)
(* variable other than the error message: startAnalysis with no document   *)
(* text sets the message "No document text available for analysis" and     *)
(* nothing else; askQuestion with a blank question or no document text     *)
(* changes nothing.                                                        *)
(***************************************************************************)
C7_ValidationOnlyMessage ==
    [][/\ StartAnalysisInvalid =>
             /\ error' = NoDocumentTextError
             /\ UNCHANGED <<isUploading, uploadedFiles, documentText, analysisResult,
                            isAnalyzing, showAnalysis, showReuploadModal, uploadCalls,
                            analysisCalls, exampleFetches, errorTimers, askVars>>
       /\ AskQuestionInvalid => UNCHANGED vars
      ]_vars

\* the validation message of startAnalysis is shown and no analysis was started
C7_Witness ==
    /\ error = NoDocumentTextError
    /\ ~isAnalyzing
    /\ analysisCalls = <<>>
    /\ ChatBarRendered

(***************************************************************************)
(* C8.  Only the operations enumerated for a state are accepted in it: an  *)
(* upload is issued only from Empty or Ready, a reupload is committed only *)
(* from Ready or Analyzed, an analysis is issued only from Ready, and      *)
(* goBackFromAnalysis acts only from Analyzed.                             *)
(* Fails: the drop zone accepts an upload while Uploading, and the         *)
(* reupload button and its prompt act while Analyzing.                     *)
(***************************************************************************)
C8_OperationsPerState ==
    [][/\ UploadIssued => Stage \in {"Empty", "Ready"}
       /\ HomeStep(handleFirstConfirm) => Stage \in {"Ready", "Analyzed"}
       /\ AnalysisIssued => Stage = "Ready"
       /\ HomeStep(BackClick) => Stage = "Analyzed"
      ]_vars

(***************************************************************************)
(* C9.  goBackFromAnalysis changes showAnalysis and nothing else of the    *)
(* controller: the document, its text and the insight are retained, the    *)
(* insight is no longer displayed, and from Analyzed the controller is in  *)
(* Ready.                                                                  *)
(***************************************************************************)
C9_BackKeepsInsight ==
    [][HomeStep(BackClick) =>
        /\ UNCHANGED <<uploadedFiles, documentText, analysisResult, isUploading,
                       isAnalyzing, error, showReuploadModal, uploadCalls, analysisCalls,
                       exampleFetches, errorTimers>>
        /\ TruthyValue(analysisResult')
        /\ ~LegalInsightsRendered'
        /\ (Stage = "Analyzed" => Stage' = "Ready")]_vars

\* Ready with the insight retained and not displayed
C9_Witness ==
    /\ Stage = "Ready"
    /\ TruthyValue(analysisResult)
    /\ ~showAnalysis

(***************************************************************************)
(* C10.  Reupload is two-phase: the refresh button only opens the prompt;  *)
(* closing the prompt (Cancel, close button, overlay) leaves the document, *)
(* its text, the insight, the view and the error untouched; the document   *)
(* is discarded only by the confirm; after either the prompt is closed.    *)
(***************************************************************************)
C10_TwoPhaseReupload ==
    [][/\ HomeStep(ReuploadClick) => (showReuploadModal' /\ UNCHANGED homeVars)
       /\ HomeStep(handleClose) => (~showReuploadModal' /\ UNCHANGED homeVars)
       /\ HomeStep(handleFirstConfirm) => (~showReuploadModal' /\ uploadedFiles' = <<>>)
       /\ (uploadedFiles # <<>> /\ uploadedFiles' = <<>>) =>
             (showReuploadModal /\ ~showReuploadModal')
      ]_vars

\* the prompt is open over a document with an insight
C10_Witness == ModalRendered /\ TruthyValue(analysisResult) /\ error # NoError

(***************************************************************************)
(* C11.  The controller holds at most one uploaded document in every       *)
(* state; a selection or drop of several files issues one upload call, for *)
(* the first file; and an upload that returns a processed document stores  *)
(* exactly the document built from that response, with its text, in place  *)
(* of whatever was stored.                                                 *)
(***************************************************************************)
C11_SingleDocument ==
    /\ [](Len(uploadedFiles) <= 1)
    /\ [][/\ \A files \in FileLists :
                (HomeStep(UploadZoneDrop(files)) \/ HomeStep(FileInputChange(files))) =>
                    /\ Len(uploadCalls') <= Len(uploadCalls) + 1
                    /\ Len(files) > 0 =>
                          uploadCalls'[Len(uploadCalls')].file = files[1]
          /\ \A i \in 1..Len(uploadCalls) : \A r \in UploadResponses :
                (~UploadFails(r) /\ HomeStep(UploadSettles(i, r))) =>
                    /\ uploadedFiles' = <<[name |-> uploadCalls[i].file,
                                           processedText |-> r.data.text,
                                           metadata |-> r.data.metadata]>>
                    /\ documentText' = r.data.text
         ]_vars

\* a document is stored while another upload, which will replace it, is pending
C11_Witness ==
    /\ Len(uploadedFiles) = 1
    /\ uploadCalls # <<>>
    /\ uploadedFiles[1].name # uploadCalls[1].file

(***************************************************************************)
(* C12.  Once a question call has completed with progress 100 and no other *)
(* question call is pending, progress stays 100 until the next question is *)
(* submitted, also when an earlier question had failed.                    *)
(* Fails: the catch block does not clear the progress interval, so the     *)
(* interval of a failed question goes on ticking and its next tick sets    *)
(* progress to 90.                                                         *)
(***************************************************************************)
C12_ProgressStaysDone ==
    [][(/\ progress = ProgressDone
        /\ askCalls = <<>>
        /\ askCalls' = <<>>
        /\ LegalInsightsRendered') => progress' = ProgressDone]_vars

(***************************************************************************)
(* The payload fields the claims about the result mapping speak of, and    *)
(* the outcome of the render.                                              *)
(***************************************************************************)
Returned == rendered.status = "returned"
InputProvisions == Get(result(analysisData), "key_provisions")
InputLevel == Get(riskAssessment(result(analysisData)), "overall_risk_level")
InputScore == Get(riskAssessment(result(analysisData)), "score")
IsFiniteNumber(v) == v.t = "number" /\ v.kind = "finite"
IsNumber(v) == v.t = "number" /\ v.kind # "NaN"
IsPercentage(v) == IsFiniteNumber(v) /\ ~v.neg /\ v.part = 0 /\ v.whole <= 100
WellFormedProvisions(v) ==
    /\ v.t = "array"
    /\ v.items # <<>>
    /\ \A i \in 1..Len(v.items) :
          /\ v.items[i].t = "object"
          /\ Get(v.items[i], "section").t = "string"
          /\ Get(v.items[i], "content").t = "string"
LevelTable ==
    { <<<<"n", "o", "n", "e">>, 0>>, <<<<"l", "o", "w">>, 25>>, <<<<"m", "o", "d", "e", "r", "a", "t", "e">>, 40>>, <<<<"m", "e", "d", "i", "u", "m">>, 50>>,
      <<<<"h", "i", "g", "h">>, 75>>, <<<<"c", "r", "i", "t", "i", "c", "a", "l">>, 90>>, <<<<"p", "e", "n", "d", "i", "n", "g">>, 0>> }

(***************************************************************************)
(* C13.  For every payload the mapping returns, and what it returns is     *)
(* well typed: the key clauses are a non-empty sequence of strings, the    *)
(* risk level is a string, the risk score is a number that is not NaN.     *)
(* Fails: a null entry of key_provisions, a key_provisions that is a       *)
(* string and an overall_risk_level that is a number make the render       *)
(* throw a TypeError.                                                      *)
(***************************************************************************)
C13_MappingTotal ==
    rendered # NotRendered =>
        /\ Returned
        /\ rendered.keyClauses # <<>>
        /\ rendered.riskLevel.t = "string"
        /\ rendered.riskScore.t = "number"
        /\ rendered.riskScore.kind # "NaN"

(***************************************************************************)
(* C14.  A score that is a finite number is the risk score, whatever the   *)
(* level; with any other score the risk score is the lookup of the risk    *)
(* level, and is neither NaN nor null.                                     *)
(* Fails: an infinite score (JSON 1e999) is a number and not NaN, so it is *)
(* used as the risk score.                                                 *)
(***************************************************************************)
C14_ScorePrecedence ==
    Returned =>
        IF IsFiniteNumber(InputScore)
        THEN rendered.riskScore = InputScore
        ELSE /\ rendered.riskScore = getRiskScore(rendered.riskLevel)
             /\ rendered.riskScore # JsNaN
             /\ rendered.riskScore # JsNull

(***************************************************************************)
(* C15.  With no numeric score, a level that is one of none, low,          *)
(* moderate, medium, high, critical, pending in any letter case gives the  *)
(* score 0, 25, 40, 50, 75, 90, 0 of the table, and a missing level gives  *)
(* the risk level "PENDING" with score 0.                                  *)
(***************************************************************************)
C15_LevelLookup ==
    (Returned /\ ~IsNumber(InputScore)) =>
        /\ \A row \in LevelTable :
              (InputLevel.t = "string" /\ toLowerCase(InputLevel.s) = row[1]) =>
                  rendered.riskScore = JsNumber(FALSE, row[2], 0)
        /\ InputLevel.t \in {"undefined", "null"} =>
              /\ rendered.riskLevel = JsString(<<"P", "E", "N", "D", "I", "N", "G">>)
              /\ rendered.riskScore = JsNumber(FALSE, 0, 0)

\* level "MODERATE", no score: rendered with risk score 40
C15_Witness ==
    /\ Returned
    /\ InputScore = JsUndefined
    /\ InputLevel = JsString(<<"M", "O", "D", "E", "R", "A", "T", "E">>)
    /\ rendered.riskScore = JsNumber(FALSE, 40, 0)

(***************************************************************************)
(* C16.  With no numeric score and a level that is a string outside the    *)
(* table, the risk score is 0 and the risk level is that string.           *)
(* Fails: the table is an object literal, so a level that lower-cases to   *)
(* "constructor" (or "__proto__") finds an inherited property, and the     *)
(* risk score is the function Object.                                      *)
(***************************************************************************)
C16_UnknownLevel ==
    (/\ Returned
     /\ ~IsNumber(InputScore)
     /\ InputLevel.t = "string"
     /\ InputLevel.s # <<>>
     /\ \A row \in LevelTable : toLowerCase(InputLevel.s) # row[1]) =>
        /\ rendered.riskScore = JsNumber(FALSE, 0, 0)
        /\ rendered.riskLevel = InputLevel

(***************************************************************************)
(* C17.  The risk score is an integer from 0 to 100 for every payload.     *)
(* Fails: a numeric backend score is passed through as it is: -5, 150,     *)
(* 62.5, Infinity.                                                         *)
(***************************************************************************)
C17_ScoreRange == Returned => IsPercentage(rendered.riskScore)

(***************************************************************************)
(* C18.  For a non-empty key_provisions whose entries have a section and a *)
(* content, the key clauses are as many, and the i-th is the section, a    *)
(* colon and a space, and the content of the i-th provision.               *)
(***************************************************************************)
C18_KeyClauseFormat ==
    (rendered # NotRendered /\ WellFormedProvisions(InputProvisions)) =>
        /\ Returned \/ riskLevel(result(analysisData)).t # "string"
        /\ Returned =>
              /\ Len(rendered.keyClauses) = Len(InputProvisions.items)
              /\ \A i \in 1..Len(InputProvisions.items) :
                    rendered.keyClauses[i] =
                        InputProvisions.items[i].section.s \o <<":", " ">> \o
                        InputProvisions.items[i].content.s

\* [{Term, 2 years}, {Fee, $500}] rendered as "Term: 2 years", "Fee: $500"
C18_Witness ==
    /\ Returned
    /\ InputProvisions.t = "array"
    /\ Len(InputProvisions.items) = 2
    /\ rendered.keyClauses = <<<<"T", "e", "r", "m", ":", " ", "2", " ", "y", "e", "a", "r", "s">>, <<"F", "e", "e", ":", " ", "$", "5", "0", "0">>>>

(***************************************************************************)
(* C19.  A section or content missing from a provision is an empty segment *)
(* of the formatted clause: an entry with only the content X gives ": X".  *)
(* Fails: the template literal writes "undefined" for the missing part.    *)
(***************************************************************************)
C19_MissingPartEmpty ==
    (/\ Returned
     /\ InputProvisions.t = "array"
     /\ \A i \in 1..Len(InputProvisions.items) : InputProvisions.items[i].t = "object") =>
        \A i \in 1..Len(InputProvisions.items) :
            LET segment(v) == IF v.t = "string" THEN v.s ELSE <<>> IN
            rendered.keyClauses[i] =
                segment(Get(InputProvisions.items[i], "section")) \o <<":", " ">> \o
                segment(Get(InputProvisions.items[i], "content"))

(***************************************************************************)
(* C20.  When key_provisions is absent or empty the key clauses are the    *)
(* four placeholder sentences, and the key clauses of a render are never   *)
(* an empty sequence.                                                      *)
(***************************************************************************)
C20_PlaceholderFallback ==
    Returned =>
        /\ (\/ InputProvisions.t \in {"undefined", "null"}
            \/ InputProvisions = JsArray(<<>>)) =>
              /\ rendered.keyClauses = KeyClausesPlaceholder
              /\ Len(rendered.keyClauses) = 4
        /\ rendered.keyClauses # <<>>

\* rendered for key_provisions = []
C20_Witness ==
    /\ Returned
    /\ InputProvisions = JsArray(<<>>)
    /\ rendered.keyClauses = KeyClausesPlaceholder

(***************************************************************************)
(* C21.  The confidence percentage is an integer from 0 to 100; for a      *)
(* confidence_score that is a number from 0 to 1 it is that number times   *)
(* 100, rounded, so that 0 gives 0; for one that is absent or not a number *)
(* it is 80.                                                               *)
(* Fails: 0 is falsy, so || replaces it by 0.8 and the percentage is 80;   *)
(* a string that is no number gives NaN.                                   *)
(***************************************************************************)
InputConfidence == Get(result(analysisData), "confidence_score")

C21_ConfidencePercent ==
    Returned =>
        /\ IsPercentage(rendered.confidenceScore)
        /\ (/\ IsFiniteNumber(InputConfidence)
            /\ ~InputConfidence.neg
            /\ InputConfidence.whole * 10000 + InputConfidence.part <= 10000) =>
              rendered.confidenceScore =
                  JsNumber(FALSE,
                           InputConfidence.whole * 100 + (InputConfidence.part \div 100) +
                               (IF InputConfidence.part % 100 >= 50 THEN 1 ELSE 0),
                           0)
        /\ InputConfidence.t # "number" =>
              rendered.confidenceScore = JsNumber(FALSE, 80, 0)

(***************************************************************************)
(* C22.  A response with a status outside 200..299 makes the call fail     *)
(* with an Error whose message is the error.message of the body when the   *)
(* body has one, and "HTTP error! status: <code>" when it has none,        *)
(* whatever the body is; a response with a status in 200..299 and a JSON   *)
(* body returns the parsed body.                                           *)
(* Fails: the body is parsed before the status is looked at, so a failed   *)
(* response whose body is not JSON fails with the parser's SyntaxError,    *)
(* and one whose body is null with a TypeError.                            *)
(***************************************************************************)
BodyErrorMessage == OptionalGet(OptionalGet(httpResponse.body, "error"), "message")

C22_HandleResponse ==
    handled # NotHandled =>
        IF Ok(httpResponse)
        THEN httpResponse.body # NotJson =>
                 handled = [outcome |-> "returned", data |-> httpResponse.body]
        ELSE /\ handled.outcome = "threw"
             /\ handled.name = "Error"
             /\ (BodyErrorMessage.t = "string" /\ BodyErrorMessage.s # <<>>) =>
                   handled.message = BodyErrorMessage.s
             /\ BodyErrorMessage.t = "undefined" =>
                   handled.message = <<"HTTP error! status: ">> \o Digits(httpResponse.status)

(***************************************************************************)
(* C23.  For a question call made with no other call pending and no other  *)
(* interval running: submitting it sets progress to 0; until it returns    *)
(* each tick leaves progress or adds 10 to it and progress stays at or     *)
(* below 90; progress becomes 100 only in the step in which a call returns *)
(* with an answer; and when a call returns, with an answer or with a       *)
(* failure, its interval, if still running, is stopped.                    *)
(* Fails: the catch block does not clear the interval, which goes on       *)
(* ticking after the failure.                                              *)
(***************************************************************************)
AskIssued == Len(askCalls') > Len(askCalls)
AskReturned == Len(askCalls') < Len(askCalls)

C23_ProgressIndicator ==
    [][/\ AskIssued => progress' = 0
       /\ (/\ Len(askCalls) = 1 /\ askCalls[1].live
           /\ liveOrphans = 0
           /\ ~AskIssued /\ ~AskReturned /\ LegalInsightsRendered') =>
             /\ progress' \in {progress, progress + ProgressStep}
             /\ progress' <= ProgressCap
       /\ (progress' = ProgressDone /\ progress # ProgressDone) =>
             (AskReturned /\ questionResponse' \in Answers)
       /\ \A i \in 1..Len(askCalls) :
             (AskReturned /\ askCalls' = RemoveAt(askCalls, i) /\ askCalls[i].timer) =>
                 RunningIntervals' = RunningIntervals - 1
      ]_vars

(***************************************************************************)
(* C24.  When pending calls settle, a controller that is uploading         *)
(* eventually is not uploading, and one that is analyzing eventually is    *)
(* not analyzing, whatever the calls settle with.                          *)
(***************************************************************************)
C24_BusyEnds ==
    /\ isUploading ~> ~isUploading
    /\ isAnalyzing ~> ~isAnalyzing

\* an upload answered with success and no data has left Uploading
C24_Witness ==
    /\ ~isUploading
    /\ uploadCalls = <<>>
    /\ error = UploadFailed("Cannot read properties of undefined (reading 'text')")

(***************************************************************************)
(* C25.  Whenever the analysis view is displayed a document is stored and  *)
(* the insight displayed is a result of analysing the text of that         *)
(* document.                                                               *)
(* Fails: the reupload button acts while an analysis is pending, and the   *)
(* result that then arrives is stored and displayed with no document, or   *)
(* over a document uploaded since.                                         *)
(***************************************************************************)
C25_InsightOfStoredDocument ==
    LegalInsightsRendered =>
        /\ uploadedFiles # <<>>
        /\ analysisResult.forText = documentText

(***************************************************************************)
(* C26.  A timer clears the failure message of the failure that armed it:  *)
(* when a timer fires while the message of a failed upload or analysis is  *)
(* displayed, it is the timer armed with that message, the only one or the *)
(* latest armed.                                                           *)
(* Fails: the timers are not cancelled, so the timer of an earlier failure *)
(* fires first and clears the message of a later one.                      *)
(***************************************************************************)
C26_ErrorShownFullDelay ==
    [][(/\ HomeStep(ErrorTimerFires)
        /\ error.src \in {"Upload failed", "Analysis failed"}) =>
            Len(errorTimers) = 1]_vars

(***************************************************************************)
(* C27.  isUploading is true exactly when an upload call is in flight and  *)
(* isAnalyzing exactly when an analysis call is in flight.                 *)
(* Fails: of two overlapping uploads (C1) the first to return sets         *)
(* isUploading false while the second is pending.                          *)
(***************************************************************************)
C27_BusyFlagsMatchCalls ==
    /\ isUploading <=> uploadCalls # <<>>
    /\ isAnalyzing <=> analysisCalls # <<>>

(***************************************************************************)
(* C28.  When a document is stored documentText is its processedText, and  *)
(* when none is stored documentText is empty.                              *)
(***************************************************************************)
C28_TextMatchesDocument ==
    /\ uploadedFiles # <<>> => documentText = uploadedFiles[1].processedText
    /\ uploadedFiles = <<>> => documentText = ""

\* a document stored over an earlier one, an upload having failed in between
C28_Witness ==
    /\ uploadedFiles # <<>>
    /\ documentText = "text B"
    /\ uploadedFiles[1].processedText = "text B"
    /\ error.src = "Upload failed"

(***************************************************************************)
(* C29.  The risk level, the risk score, the key clauses and the Risk      *)
(* Level row written to a downloaded report are those shown in the view    *)
(* for the same payload.                                                   *)
(* Fails: the PDF takes its risk score from a table of its own, which      *)
(* ignores the backend score, has no entry for "moderate" and compares the *)
(* level as it is written.                                                 *)
(***************************************************************************)
C29_ReportMatchesView ==
    report # NoReport =>
        /\ report.riskLevel = rendered.riskLevel
        /\ report.riskScore = rendered.riskScore
        /\ report.keyClauses = rendered.keyClauses
        /\ report.riskLevelRow = rendered.riskLevelRow

(***************************************************************************)
(* C30.  Through any sequence of dragenter, dragleave, drop, dragend and   *)
(* mouseleave events, of file drags and other drags, the drag counter is   *)
(* never negative, the overlay is active exactly when the counter is       *)
(* above 0, and after a drop or a dragend the counter is 0 and the overlay *)
(* inactive.                                                               *)
(***************************************************************************)
C30_DragCounter ==
    /\ [](dragCounter >= 0 /\ (isGlobalDragActive <=> dragCounter > 0))
    /\ [][(\/ handleDrop
           \/ handleDragEnd
           \/ \E files \in FileLists : OverlayDrop(files)) =>
             (dragCounter' = 0 /\ ~isGlobalDragActive')]_vars

\* a file was dropped on the overlay and is being uploaded, the overlay gone
C30_Witness ==
    /\ uploadCalls # <<>>
    /\ dragCounter = 0
    /\ ~isGlobalDragActive

====
